---- MODULE Spec2Model ----
(***************************************************************************)
(* Model of generate_vpm_index.py: the VPM index generator.                *)
(*                                                                         *)
(* Python values are tagged records [t, v, d]: t is the Python type, v the *)
(* characters of a str (or the repr of a list), d the items of a dict.     *)
(* A str is a sequence of one-character strings.                           *)
(***************************************************************************)
EXTENDS Integers, Sequences, FiniteSets, TLC

VARIABLES pc, packages, itemsLeft, filesLeft, plugin_dir, filename, archive,
          scanlog, added, index, file, stdout, err, ret

vars == <<pc, packages, itemsLeft, filesLeft, plugin_dir, filename, archive,
          scanlog, added, index, file, stdout, err, ret>>

\* ---------------------------------------------------------------- bounds
MaxItems == 2
MaxFiles == 2
MaxEntries == 2

\* ---------------------------------------------------------- Python values
EmptyDict == [k \in {} |-> <<>>]

None == [t |-> "None", v |-> <<>>, d |-> EmptyDict]

PyStr(chars) == [t |-> "str", v |-> chars, d |-> EmptyDict]

PyList(repr) == [t |-> "list", v |-> repr, d |-> EmptyDict]

PyDict(items) == [t |-> "dict", v |-> <<>>, d |-> items]

\* bool(x): None, '', [] and {} are falsy
Truthy(x) ==
  CASE x.t = "None" -> FALSE
    [] x.t = "str"  -> x.v # <<>>
    [] x.t = "list" -> x.v # <<"[", "]">>
    [] x.t = "dict" -> DOMAIN x.d # {}

\* hash(x) succeeds: lists and dicts are unhashable
Hashable(x) == x.t \in {"None", "str"}

\* x.get(key) on a dict
Get(x, key) == IF key \in DOMAIN x.d THEN x.d[key] ELSE None

\* format(x, '') as str.format substitutes it
Format(x) ==
  CASE x.t = "None" -> <<"N", "o", "n", "e">>
    [] x.t = "str"  -> x.v
    [] x.t = "list" -> x.v
    [] x.t = "dict" -> <<"{", "}">>

\* ------------------------------------------------------------ str methods
EndsWith(s, suffix) ==
  /\ Len(s) >= Len(suffix)
  /\ SubSeq(s, Len(s) - Len(suffix) + 1, Len(s)) = suffix

StartsWith(s, prefix) ==
  /\ Len(s) >= Len(prefix)
  /\ SubSeq(s, 1, Len(prefix)) = prefix

Contains(s, c) == \E i \in 1..Len(s) : s[i] = c

\* s.replace(old, ''): every non-overlapping occurrence, left to right
RECURSIVE Replace(_, _)
Replace(s, old) ==
  IF Len(s) < Len(old) THEN s
  ELSE IF SubSeq(s, 1, Len(old)) = old
       THEN Replace(SubSeq(s, Len(old) + 1, Len(s)), old)
       ELSE <<Head(s)>> \o Replace(Tail(s), old)

ZipExt == <<".", "z", "i", "p">>

VpmPrefix == <<"v", "p", "m", ".">>

PackageJson == <<"p", "a", "c", "k", "a", "g", "e", ".", "j", "s", "o", "n">>

\* ------------------------------------------- extract_version_from_filename
IsDigit(c) == c \in {"0", "1", "2", "3", "4", "5", "6", "7", "8", "9"}

\* \d+ from position i: the position after the longest run of digits
DigitsEnd(s, i) ==
  CHOOSE j \in i..(Len(s) + 1) :
    /\ \A k \in i..(j - 1) : IsDigit(s[k])
    /\ j = Len(s) + 1 \/ ~IsDigit(s[j])

\* '$' without re.MULTILINE: the end of the string, or just before a newline
\* that ends the string
AtDollar(s, i) ==
  \/ i = Len(s) + 1
  \/ i = Len(s) /\ s[i] = "\n"

\* the pattern -(\d+\.\d+\.\d+)\.zip$ tried at position i: the position after
\* group 1 (0: no match here); each \d+ takes the longest run of digits, and
\* a shorter run cannot be followed by the '.' the pattern wants next
MatchAt(s, i) ==
  IF s[i] # "-" \/ i = Len(s) THEN 0
  ELSE LET a == DigitsEnd(s, i + 1)
           b == DigitsEnd(s, a + 1)
           c == DigitsEnd(s, b + 1)
       IN  IF /\ a > i + 1 /\ a < Len(s) /\ s[a] = "."
              /\ b > a + 1 /\ b < Len(s) /\ s[b] = "."
              /\ c > b + 1
              /\ c + 3 <= Len(s) /\ SubSeq(s, c, c + 3) = ZipExt
              /\ AtDollar(s, c + 4)
           THEN c ELSE 0

\* re.search: group 1 of the match at the leftmost position where the
\* pattern matches
extract_version_from_filename(fname) ==
  LET hits == {i \in 1..Len(fname) : MatchAt(fname, i) # 0}
      found == {PyStr(SubSeq(fname, i + 1, MatchAt(fname, i) - 1)) :
                  i \in {h \in hits : \A g \in hits : h <= g}}
  IN  IF found = {} THEN None ELSE CHOOSE version \in found : TRUE

\* ---------------------------------------------------- extract_package_info
\* An archive is [openable, entries]; an entry is [name, content]; a content
\* is [valid, json]: json.loads(...decode('utf-8')) raises unless valid.

\* a reader that accepts the metadata file at any depth
IsRootPackageJson_AnyDepth(name) == EndsWith(name, PackageJson)

\* the condition of line 30
IsRootPackageJson(name) ==
  /\ EndsWith(name, PackageJson)
  /\ ~Contains(Replace(name, PackageJson), "/")

\* ZipFile.read(name): the archive's name table keeps, for a path stored
\* more than once, the entry stored last
ZipRead(z, name) ==
  LET same == {i \in 1..Len(z.entries) : z.entries[i].name = name}
      last == CHOOSE i \in same : \A j \in same : j <= i
  IN  z.entries[last].content

extract_package_info(z) ==
  IF ~z.openable THEN None
  ELSE LET roots == {i \in 1..Len(z.entries) : IsRootPackageJson(z.entries[i].name)}
       IN  IF roots = {} THEN None
           ELSE LET first == CHOOSE i \in roots : \A j \in roots : i <= j
                    content == ZipRead(z, z.entries[first].name)
                IN  IF content.valid THEN content.json ELSE None

\* ------------------------------------------------------------ scan_packages
\* DOWNLOAD_URL_BASE.format(plugin_name=..., filename=...); the fixed part of
\* the template is kept as one element
DOWNLOAD_URL_BASE(plugin_name, fname) ==
  <<"https://raw.githubusercontent.com/cielo-h/vpmRepo/master/">>
    \o plugin_name \o <<"/">> \o fname

\* a filter that forgets the 'vpm.' prefix
IsCandidate_ZipOnly(fname) == EndsWith(fname, ZipExt)

\* the two filters at the head of the file loop
IsCandidate(fname) == EndsWith(fname, ZipExt) /\ StartsWith(fname, VpmPrefix)

\* a name check that rejects only a missing or null name
NameMissing_OnlyNone(package_name) == package_name = None

\* "if not package_name"
NameMissing(package_name) == ~Truthy(package_name)

BaseKeys == {"name", "displayName", "version", "unity", "description", "url"}

OptionalKeys == {"vpmDependencies", "author"}

\* a record that trusts the version field of the metadata
version_info_MetadataVersion(package_info, version, fname) ==
  [k \in BaseKeys \cup (OptionalKeys \cap DOMAIN package_info.d) |->
     CASE k = "name"        -> Get(package_info, "name")
       [] k = "displayName" -> Get(package_info, "displayName")
       [] k = "version"     ->
            IF "version" \in DOMAIN package_info.d
            THEN package_info.d["version"] ELSE version
       [] k = "unity"       -> Get(package_info, "unity")
       [] k = "description" -> Get(package_info, "description")
       [] k = "url"         ->
            PyStr(DOWNLOAD_URL_BASE(Format(Get(package_info, "displayName")), fname))
       [] OTHER             -> package_info.d[k]]

\* a record that copies the optional keys with .get, as it does the others
version_info_NullOptional(package_info, version, fname) ==
  [k \in BaseKeys \cup OptionalKeys |->
     CASE k = "version" -> version
       [] k = "url"     ->
            PyStr(DOWNLOAD_URL_BASE(Format(Get(package_info, "displayName")), fname))
       [] OTHER         -> Get(package_info, k)]

version_info(package_info, version, fname) ==
  [k \in BaseKeys \cup (OptionalKeys \cap DOMAIN package_info.d) |->
     CASE k = "name"        -> Get(package_info, "name")
       [] k = "displayName" -> Get(package_info, "displayName")
       [] k = "version"     -> version
       [] k = "unity"       -> Get(package_info, "unity")
       [] k = "description" -> Get(package_info, "description")
       [] k = "url"         ->
            PyStr(DOWNLOAD_URL_BASE(Format(Get(package_info, "displayName")), fname))
       [] OTHER             -> package_info.d[k]]

\* an entry that is created anew for every file
EnsurePackage_Reset(pk, package_name) ==
  [k \in DOMAIN pk \cup {package_name} |->
     IF k = package_name THEN [versions |-> EmptyDict] ELSE pk[k]]

\* "if package_name not in packages: packages[package_name] = {'versions': {}}"
EnsurePackage(pk, package_name) ==
  IF package_name \in DOMAIN pk THEN pk
  ELSE [k \in DOMAIN pk \cup {package_name} |->
          IF k = package_name THEN [versions |-> EmptyDict] ELSE pk[k]]

\* a store that keeps the record already there (setdefault)
StoreVersion_KeepFirst(pk, package_name, version, info) ==
  [pk EXCEPT ![package_name] =
     [versions |->
        [v \in DOMAIN pk[package_name].versions \cup {version} |->
           IF v \in DOMAIN pk[package_name].versions
           THEN pk[package_name].versions[v] ELSE info]]]

\* packages[package_name]["versions"][version] = version_info
StoreVersion(pk, package_name, version, info) ==
  [pk EXCEPT ![package_name] =
     [versions |->
        [v \in DOMAIN pk[package_name].versions \cup {version} |->
           IF v = version THEN info ELSE pk[package_name].versions[v]]]]

\* the line extract_package_info prints for the archive ("": none)
ReaderLog(z) ==
  IF ~z.openable THEN "Error reading"
  ELSE LET roots == {i \in 1..Len(z.entries) : IsRootPackageJson(z.entries[i].name)}
       IN  IF roots = {} THEN "Warning: package.json not found"
           ELSE LET first == CHOOSE i \in roots : \A j \in roots : i <= j
                IN  IF ZipRead(z, z.entries[first].name).valid THEN ""
                    ELSE "Error reading"

\* the body of "for filename in os.listdir(plugin_dir)", given what lines 69
\* and 76 return when they are reached: the mapping after it, the line it
\* prints last, and the exception it raises
FileLoopBody(pk, fname, z, version, package_info) ==
  IF ~IsCandidate(fname)
  THEN [packages |-> pk, log |-> "", raised |-> "none"]
  ELSE IF version = None
  THEN [packages |-> pk, log |-> "Warning: Could not extract version", raised |-> "none"]
  ELSE IF package_info = None
  THEN [packages |-> pk, log |-> ReaderLog(z), raised |-> "none"]
  ELSE IF package_info.t # "dict"
  THEN [packages |-> pk, log |-> ReaderLog(z), raised |-> "AttributeError"]
  ELSE IF NameMissing(Get(package_info, "name"))
  THEN [packages |-> pk, log |-> "Warning: No package name found", raised |-> "none"]
  ELSE IF ~Hashable(Get(package_info, "name"))
  THEN [packages |-> pk, log |-> ReaderLog(z), raised |-> "TypeError"]
  ELSE [packages |->
          StoreVersion(EnsurePackage(pk, Get(package_info, "name")),
                       Get(package_info, "name"), version,
                       version_info(package_info, version, fname)),
        log |-> "Added", raised |-> "none"]

\* one iteration of the file loop; the two calls are pure, so their results
\* are taken once, whether or not the iteration reaches them
ScanFile(pk, fname, z) ==
  CHOOSE r \in {FileLoopBody(pk, fname, z, version, package_info) :
                  version \in {extract_version_from_filename(fname)},
                  package_info \in {extract_package_info(z)}} : TRUE

\* ------------------------------------------------------------------ inputs
NameP == PyStr(<<"p">>)

NameQ == PyStr(<<"q">>)

\* metadata without optional keys; its own version field differs from every
\* filename
MetaPlain ==
  PyDict([name |-> NameP, displayName |-> PyStr(<<"P">>),
          version |-> PyStr(<<"9", ".", "9", ".", "9">>),
          unity |-> PyStr(<<"2", "0", "1", "9">>), description |-> PyStr(<<"x">>)])

\* the same package with other fields and both optional keys
MetaFull ==
  PyDict([name |-> NameP, displayName |-> PyStr(<<"P", "2">>),
          unity |-> PyStr(<<"2", "0", "2", "2">>), description |-> PyStr(<<"y">>),
          vpmDependencies |-> PyDict([dep |-> PyStr(<<"1", ".", "0", ".", "0">>)]),
          author |-> PyStr(<<"m", "e">>)])

\* another package: optional keys present with an empty and a null value
MetaEmptyOpt ==
  PyDict([name |-> NameQ, vpmDependencies |-> PyDict(EmptyDict), author |-> None])

MetaNoName == PyDict([displayName |-> PyStr(<<"N">>)])

MetaEmptyName == PyDict([name |-> PyStr(<<>>), displayName |-> PyStr(<<"N">>)])

MetaListName == PyDict([name |-> PyList(<<"[", "1", "]">>)])

JsonArray == PyList(<<"[", "]">>)

Content(json) == [valid |-> TRUE, json |-> json]

Malformed == [valid |-> FALSE, json |-> None]

Entry(name, content) == [name |-> name, content |-> content]

Zip(entries) == [openable |-> TRUE, entries |-> entries]

Unopenable == [openable |-> FALSE, entries |-> <<>>]

SubPackageJson == <<"s", "/", "p", "a", "c", "k", "a", "g", "e", ".", "j", "s", "o", "n">>

MyPackageJson == <<"m", "y", "p", "a", "c", "k", "a", "g", "e", ".", "j", "s", "o", "n">>

ReadmeTxt == <<"a", ".", "t", "x", "t">>

\* the archives the scan meets
ScanArchives ==
  {Unopenable, Zip(<<>>), Zip(<<Entry(SubPackageJson, Content(MetaPlain))>>),
   Zip(<<Entry(PackageJson, Content(MetaFull)), Entry(PackageJson, Content(MetaEmptyOpt))>>)}
  \cup {Zip(<<Entry(PackageJson, c)>>) :
          c \in {Content(MetaPlain), Content(MetaFull), Content(MetaEmptyOpt),
                 Content(MetaNoName), Content(MetaEmptyName), Content(MetaListName),
                 Content(JsonArray), Content(None), Malformed}}

FileA100 == <<"v", "p", "m", ".", "a", "-", "1", ".", "0", ".", "0", ".", "z", "i", "p">>

FileA110 == <<"v", "p", "m", ".", "a", "-", "1", ".", "1", ".", "0", ".", "z", "i", "p">>

FileB100 == <<"v", "p", "m", ".", "b", "-", "1", ".", "0", ".", "0", ".", "z", "i", "p">>

FileNoVersion == <<"v", "p", "m", ".", "a", "-", "1", ".", "0", ".", "z", "i", "p">>

FileNoPrefix == <<"a", "-", "1", ".", "0", ".", "0", ".", "z", "i", "p">>

FileNoZip == <<"v", "p", "m", ".", "a", "-", "1", ".", "0", ".", "0", ".", "t", "a", "r">>

\* the directory entries the scan meets: every archive under a well-formed
\* name, and the ill-named files with well-formed archives
ScanFiles ==
  ({FileA100, FileA110, FileB100} \X ScanArchives)
  \cup ({FileNoVersion, FileNoPrefix, FileNoZip}
          \X {Zip(<<Entry(PackageJson, Content(MetaPlain))>>),
              Zip(<<Entry(PackageJson, Content(MetaFull))>>)})

PlugDir == <<"p", "l", "u", "g">>

GitDir == <<".", "g", "i", "t">>

\* the entries of the repository root: [name, isdir, exists]
RootItems == [name : {PlugDir, GitDir}, isdir : BOOLEAN, exists : BOOLEAN]

\* ----------------------------------------------------------------- state
Line(text, n) == [text |-> text, n |-> n]

StartingLine == Line("Starting VPM index generation...", 0)

SuccessLine == Line("index.json has been generated successfully!", 0)

FoundLine(n) == Line("Found package(s)", n)

REPO_INFO ==
  [name |-> "Cielo Repo", id |-> "vpm.cielo-h",
   url |-> "https://cielo-h.github.io/vpmRepo/index.json", author |-> "cielo-h"]

\* pc: the statement the run is at; packages: the mapping scan_packages
\* accumulates; itemsLeft, filesLeft: the entries the two os.listdir loops
\* have still to yield; plugin_dir, filename: the loop variables; archive:
\* the archive at zip_path; scanlog: the line the scan printed last; added:
\* the number of "Added:" lines the scan printed; index:
\* main's index (<<>> before it is assigned); file: index.json; stdout: the
\* lines main and write_index printed; err: the exception that ended the run;
\* ret: the value a function called on its own returned
Idle ==
  /\ packages = EmptyDict
  /\ itemsLeft = 0
  /\ filesLeft = 0
  /\ plugin_dir = <<>>
  /\ scanlog = ""
  /\ added = 0
  /\ index = <<>>
  /\ file = [written |-> "no", doc |-> <<>>]
  /\ stdout = <<>>
  /\ err = "none"
  /\ ret = None

Init ==
  /\ pc = "main"
  /\ filename = <<>>
  /\ archive = Unopenable
  /\ Idle

\* main: the first print, then generate_index calls scan_packages, which
\* lists the repository root
main ==
  /\ pc = "main"
  /\ stdout' = Append(stdout, StartingLine)
  /\ packages' = EmptyDict
  /\ \E n \in 0..MaxItems : itemsLeft' = n
  /\ pc' = "scan_items"
  /\ UNCHANGED <<filesLeft, plugin_dir, filename, archive, scanlog, added, index, file,
                 err, ret>>

\* "for item in os.listdir('.')": one entry of the root, up to the listing of
\* the directory
ScanItem(item) ==
  /\ pc = "scan_items"
  /\ itemsLeft > 0
  /\ itemsLeft' = itemsLeft - 1
  /\ IF ~item.isdir \/ StartsWith(item.name, <<".">>)
     THEN UNCHANGED <<pc, plugin_dir, scanlog, filesLeft>>
     ELSE /\ plugin_dir' = item.name
          /\ scanlog' = "Scanning directory"
          /\ IF ~item.exists
             THEN UNCHANGED <<pc, filesLeft>>
             ELSE \E n \in 0..MaxFiles :
                    /\ filesLeft' = n
                    /\ pc' = IF n = 0 THEN "scan_items" ELSE "scan_files"
  /\ UNCHANGED <<packages, filename, archive, added, index, file, stdout, err, ret>>

\* "for filename in os.listdir(plugin_dir)": one file of the directory; an
\* exception leaves scan_packages, generate_index and main
ProcessFile(fname, z) ==
  /\ pc = "scan_files"
  /\ filesLeft > 0
  /\ filename' = fname
  /\ archive' = z
  /\ \E r \in {ScanFile(packages, fname, z)} :
         /\ packages' = r.packages
         /\ scanlog' = r.log
         /\ added' = IF r.log = "Added" THEN added + 1 ELSE added
         /\ IF r.raised # "none"
            THEN /\ pc' = "fatal"
                 /\ err' = r.raised
                 /\ UNCHANGED filesLeft
            ELSE /\ filesLeft' = filesLeft - 1
                 /\ pc' = IF filesLeft = 1 THEN "scan_items" ELSE "scan_files"
                 /\ UNCHANGED err
  /\ UNCHANGED <<itemsLeft, plugin_dir, index, file, stdout, ret>>

\* scan_packages returns the mapping and generate_index wraps it
generate_index ==
  /\ pc = "scan_items"
  /\ itemsLeft = 0
  /\ index' = <<[name |-> REPO_INFO.name, id |-> REPO_INFO.id, url |-> REPO_INFO.url,
                 author |-> REPO_INFO.author, packages |-> packages]>>
  /\ pc' = "write"
  /\ UNCHANGED <<packages, itemsLeft, filesLeft, plugin_dir, filename, archive,
                 scanlog, added, file, stdout, err, ret>>

WriteOutcomes == {"ok", "open fails", "dump fails"}

\* a writer that prints the success line before it opens the file
write_index_SuccessFirst(outcome) ==
  /\ pc = "write"
  /\ stdout' = Append(stdout, SuccessLine)
  /\ CASE outcome = "ok" ->
            /\ file' = [written |-> "ok", doc |-> index]
            /\ pc' = "summary"
            /\ UNCHANGED err
       [] outcome = "open fails" ->
            /\ pc' = "fatal"
            /\ err' = "OSError"
            /\ UNCHANGED file
       [] outcome = "dump fails" ->
            /\ file' = [written |-> "partial", doc |-> <<>>]
            /\ pc' = "fatal"
            /\ err' = "OSError"
  /\ UNCHANGED <<packages, itemsLeft, filesLeft, plugin_dir, filename, archive,
                 scanlog, added, index, ret>>

\* write_index: open() raises, or json.dump raises after the file was
\* truncated, or the document is written and the success line printed
write_index(outcome) ==
  /\ pc = "write"
  /\ CASE outcome = "ok" ->
            /\ file' = [written |-> "ok", doc |-> index]
            /\ stdout' = Append(stdout, SuccessLine)
            /\ pc' = "summary"
            /\ UNCHANGED err
       [] outcome = "open fails" ->
            /\ pc' = "fatal"
            /\ err' = "OSError"
            /\ UNCHANGED <<file, stdout>>
       [] outcome = "dump fails" ->
            /\ file' = [written |-> "partial", doc |-> <<>>]
            /\ pc' = "fatal"
            /\ err' = "OSError"
            /\ UNCHANGED stdout
  /\ UNCHANGED <<packages, itemsLeft, filesLeft, plugin_dir, filename, archive,
                 scanlog, added, index, ret>>

\* main's last print
summary ==
  /\ pc = "summary"
  /\ stdout' = Append(stdout, FoundLine(Cardinality(DOMAIN index[1].packages)))
  /\ pc' = "done"
  /\ UNCHANGED <<packages, itemsLeft, filesLeft, plugin_dir, filename, archive,
                 scanlog, added, index, file, err, ret>>

Next ==
  \/ main
  \/ \E item \in RootItems : ScanItem(item)
  \/ \E f \in ScanFiles : ProcessFile(f[1], f[2])
  \/ generate_index
  \/ \E outcome \in WriteOutcomes : write_index(outcome)
  \/ summary

Spec == Init /\ [][Next]_vars

\* the files of the runs whose course is followed to their end: two that are
\* added, one that is passed over, one that raises
PipelineFiles ==
  {<<FileA100, Zip(<<Entry(PackageJson, Content(MetaPlain))>>)>>,
   <<FileB100, Zip(<<Entry(PackageJson, Content(MetaEmptyOpt))>>)>>,
   <<FileNoZip, Zip(<<Entry(PackageJson, Content(MetaPlain))>>)>>,
   <<FileA110, Zip(<<Entry(PackageJson, Content(JsonArray))>>)>>}

NextPipeline ==
  \/ main
  \/ \E item \in RootItems : ScanItem(item)
  \/ \E f \in PipelineFiles : ProcessFile(f[1], f[2])
  \/ generate_index
  \/ \E outcome \in WriteOutcomes : write_index(outcome)
  \/ summary

\* the run is one thread of control that takes its next step
PipelineSpec == Init /\ [][NextPipeline]_vars /\ WF_vars(NextPipeline)

\* ------------------------------- extract_version_from_filename on its own
VersionPrefixes == {<<>>, <<"v", "p", "m", ".", "a">>, <<"a", "-", "1">>}

VersionSeparators == {<<"-">>, <<>>, <<"_">>}

VersionNumbers ==
  {<<"1", ".", "0", ".", "0">>,
   <<"1", "2", ".", "3", ".", "4">>,
   <<"1", ".", "0">>,
   <<"1", ".", "2", ".", "3", ".", "4">>,
   <<"1", ".", ".", "0">>,
   <<"a", ".", "0", ".", "0">>,
   <<>>}

VersionExtensions ==
  {<<".", "z", "i", "p">>,
   <<".", "z", "i", "p", "\n">>,
   <<".", "z", "i", "p", "x">>,
   <<".", "t", "a", "r">>,
   <<".", "z", "i", "p", ".", "z", "i", "p">>,
   <<>>}

VersionInputs ==
  {a \o b \o c \o d : a \in VersionPrefixes, b \in VersionSeparators,
                      c \in VersionNumbers, d \in VersionExtensions}

InitVersion ==
  /\ pc = "call"
  /\ filename \in VersionInputs
  /\ archive = Unopenable
  /\ Idle

CallVersion ==
  /\ pc = "call"
  /\ ret' = extract_version_from_filename(filename)
  /\ pc' = "returned"
  /\ UNCHANGED <<packages, itemsLeft, filesLeft, plugin_dir, filename, archive,
                 scanlog, added, index, file, stdout, err>>

SpecVersion == InitVersion /\ [][CallVersion]_vars

\* --------------------------------------- extract_package_info on its own
ReaderNames == {PackageJson, SubPackageJson, MyPackageJson, ReadmeTxt}

ReaderContents == {Content(MetaPlain), Content(MetaEmptyOpt), Content(JsonArray), Malformed}

ReaderEntries == {Entry(n, c) : n \in ReaderNames, c \in ReaderContents}

ReaderInputs ==
  {Unopenable} \cup
  UNION {{Zip(es) : es \in [1..n -> ReaderEntries]} : n \in 0..MaxEntries}

InitReader ==
  /\ pc = "call"
  /\ filename = <<>>
  /\ archive \in ReaderInputs
  /\ Idle

CallReader ==
  /\ pc = "call"
  /\ ret' = extract_package_info(archive)
  /\ pc' = "returned"
  /\ UNCHANGED <<packages, itemsLeft, filesLeft, plugin_dir, filename, archive,
                 scanlog, added, index, file, stdout, err>>

SpecReader == InitReader /\ [][CallReader]_vars

\* ---------------------------------------------------------------- claims
\* the mappings the run holds: the scan's, the index's, the written file's
Mappings ==
  {packages} \cup {index[i].packages : i \in 1..Len(index)}
             \cup {file.doc[i].packages : i \in 1..Len(file.doc)}

\* the last path segment of a url
UrlFilename(url) ==
  LET slashes == {i \in 1..Len(url) : url[i] = "/"}
      last == CHOOSE i \in slashes : \A j \in slashes : j <= i
  IN  SubSeq(url, last + 1, Len(url))

Version100 == PyStr(<<"1", ".", "0", ".", "0">>)

Version110 == PyStr(<<"1", ".", "1", ".", "0">>)

\* the (package, version) pairs of a mapping
Pairs(m) == UNION {{<<p, v>> : v \in DOMAIN m[p].versions} : p \in DOMAIN m}

\* the name and the version the file the scan is at yields
CurrentName == Get(extract_package_info(archive), "name")

CurrentVersion == extract_version_from_filename(filename)

\* C1: no per-file failure aborts the scan or leaves scan_packages: a run is
\* ended only by the writer, after the scan returned its mapping
C1_PerFileFailuresContained ==
  pc = "fatal" => err = "OSError" /\ index # <<>>

\* C2: the filename's body after a '-' is three non-empty digit runs joined
\* by dots and is followed by '.zip' at the very end of the name
ThreeDigitRuns(b) ==
  \E a, c \in 1..Len(b) :
    /\ a > 1 /\ c > a + 1 /\ c < Len(b)
    /\ b[a] = "." /\ b[c] = "."
    /\ \A k \in (1..Len(b)) \ {a, c} : IsDigit(b[k])

VersionSuffixAt(f, i) ==
  /\ EndsWith(f, ZipExt)
  /\ f[i] = "-"
  /\ i + 1 <= Len(f) - 4
  /\ ThreeDigitRuns(SubSeq(f, i + 1, Len(f) - 4))

\* C2: extract_version_from_filename returns X.Y.Z exactly for the names
\* that end with '-X.Y.Z.zip' and None for every other name
C2_VersionExactlyForSuffix ==
  pc = "returned" =>
    LET at == {i \in 1..Len(filename) : VersionSuffixAt(filename, i)}
    IN  IF at = {} THEN ret = None
        ELSE \E i \in at : ret = PyStr(SubSeq(filename, i + 1, Len(filename) - 4))

\* C3: every record stored under version v has version = v, and v is the
\* version extracted from the filename that ends the record's url; the record
\* of the file just added carries that file's name in its url
C3_VersionIsFilenameVersion ==
  /\ \A m \in Mappings : \A pv \in Pairs(m) :
       LET r == m[pv[1]].versions[pv[2]]
       IN  /\ r["version"] = pv[2]
           /\ extract_version_from_filename(UrlFilename(r["url"].v)) = pv[2]
  /\ scanlog = "Added" =>
       /\ <<CurrentName, CurrentVersion>> \in Pairs(packages)
       /\ UrlFilename(packages[CurrentName].versions[CurrentVersion]["url"].v) = filename

\* a record built from metadata whose own version field differs from the
\* filename's has reached the written index
C3_Witness ==
  /\ pc = "done"
  /\ <<NameP, Version100>> \in Pairs(file.doc[1].packages)
  /\ file.doc[1].packages[NameP].versions[Version100]["displayName"] = PyStr(<<"P">>)
  /\ MetaPlain.d["version"] # Version100

\* C4: a file whose name does not start with 'vpm.' or does not end with
\* '.zip' leaves the mapping as it was, and the url of every record ends in
\* a filename that starts with 'vpm.' and ends with '.zip'
C4_NonCandidateNeverRepresented ==
  /\ [][(pc = "scan_files" /\
           ~(StartsWith(filename', VpmPrefix) /\ EndsWith(filename', ZipExt)))
          => packages' = packages]_vars
  /\ [](\A m \in Mappings : \A pv \in Pairs(m) :
          LET f == UrlFilename(m[pv[1]].versions[pv[2]]["url"].v)
          IN  StartsWith(f, VpmPrefix) /\ EndsWith(f, ZipExt))

\* a well-formed archive under a name without the prefix was passed over
\* while the mapping holds records
C4_Witness ==
  /\ filename = FileNoPrefix
  /\ extract_package_info(archive) = MetaPlain
  /\ packages # EmptyDict
  /\ \A m \in Mappings : \A pv \in Pairs(m) :
       UrlFilename(m[pv[1]].versions[pv[2]]["url"].v) # FileNoPrefix

\* C5: a (package, version) key, once inserted, stays; every file the scan
\* adds is found under its name and its filename version; the index carries
\* the mapping the scan ended with
C5_VersionsCoexist ==
  /\ [][\A pv \in Pairs(packages) : pv \in Pairs(packages')]_vars
  /\ [][(pc = "scan_files" /\ scanlog' = "Added") =>
          <<Get(extract_package_info(archive'), "name"),
            extract_version_from_filename(filename')>> \in Pairs(packages')]_vars
  /\ [](\A m \in Mappings : m = packages)

\* two versions of one package, added by two files, are both in the index
C5_Witness ==
  /\ pc = "done"
  /\ added = 2
  /\ DOMAIN index[1].packages = {NameP}
  /\ DOMAIN index[1].packages[NameP].versions = {Version100, Version110}

\* the optional keys of a record are those of the metadata, values unchanged
OptionalAsIn(r, info) ==
  \A k \in OptionalKeys :
    /\ k \in DOMAIN r <=> k \in DOMAIN info.d
    /\ k \in DOMAIN r => r[k] = info.d[k]

\* C6: every record that enters the mapping or changes in it is built from
\* the archive being processed, and has 'vpmDependencies' ('author') exactly
\* when that archive's metadata has it, with the metadata's value
C6_OptionalKeysAsInMetadata ==
  [][\A pv \in Pairs(packages') :
       \/ /\ pv \in Pairs(packages)
          /\ packages'[pv[1]].versions[pv[2]] = packages[pv[1]].versions[pv[2]]
       \/ /\ pc = "scan_files"
          /\ OptionalAsIn(packages'[pv[1]].versions[pv[2]],
                          extract_package_info(archive'))]_vars

\* a record without optional keys was just built from metadata without them,
\* next to a record that carries both
C6_Witness ==
  /\ scanlog = "Added"
  /\ extract_package_info(archive) = MetaPlain
  /\ DOMAIN packages[CurrentName].versions[CurrentVersion] = BaseKeys
  /\ \E pv \in Pairs(packages) :
       OptionalKeys \subseteq DOMAIN packages[pv[1]].versions[pv[2]]

\* what the claim says of the reader: a root entry has no '/' in its path
ClaimRoot(name) == EndsWith(name, PackageJson) /\ ~Contains(name, "/")

Parsed(content) == IF content.valid THEN content.json ELSE None

\* C7 as stated: None unless a root entry exists, and then the parsed
\* content of the first root entry in archive order
C7_FirstRootEntry ==
  pc = "returned" =>
    LET roots == {i \in 1..Len(archive.entries) : ClaimRoot(archive.entries[i].name)}
    IN  IF ~archive.openable \/ roots = {} THEN ret = None
        ELSE LET first == CHOOSE i \in roots : \A j \in roots : i <= j
             IN  ret = Parsed(archive.entries[first].content)

\* C7 as amended: None unless a root entry exists, and then the parsed
\* content of the entry stored last under the path of the first root entry
C7_RootOnly ==
  pc = "returned" =>
    LET roots == {i \in 1..Len(archive.entries) : ClaimRoot(archive.entries[i].name)}
    IN  IF ~archive.openable \/ roots = {} THEN ret = None
        ELSE LET first == CHOOSE i \in roots : \A j \in roots : i <= j
                 same == {i \in roots : archive.entries[i].name = archive.entries[first].name}
                 last == CHOOSE i \in same : \A j \in same : j <= i
             IN  ret = Parsed(archive.entries[last].content)

\* a metadata file in a subfolder was passed over for the root one behind it
C7_Witness ==
  /\ pc = "returned"
  /\ Len(archive.entries) = 2
  /\ archive.entries[1] = Entry(SubPackageJson, Content(MetaPlain))
  /\ archive.entries[2] = Entry(PackageJson, Content(MetaEmptyOpt))
  /\ ret = MetaEmptyOpt

PipelineRank ==
  CASE pc = "main" -> 0
    [] pc \in {"scan_items", "scan_files"} -> 1
    [] pc = "write" -> 2
    [] pc = "summary" -> 3
    [] pc \in {"done", "fatal"} -> 4

HasLine(text) == \E i \in 1..Len(stdout) : stdout[i].text = text

\* C8: the run moves forward through scan, build and write, each done once;
\* the file is written only after the scan has ended and the index is built;
\* a failed write ends the run with neither the success line nor the summary
\* line; the summary line follows a successful write; the run terminates
C8_LinearPipeline ==
  /\ [][/\ PipelineRank' >= PipelineRank
        /\ PipelineRank >= 2 => PipelineRank' > PipelineRank
        /\ index # <<>> => index' = index
        /\ file.written # "no" => file' = file]_vars
  /\ [](file.written # "no" =>
          /\ index # <<>>
          /\ itemsLeft = 0 /\ filesLeft = 0
          /\ pc \in {"summary", "done", "fatal"})
  /\ []((pc = "fatal" /\ err = "OSError") =>
          /\ file.written # "ok"
          /\ ~HasLine(SuccessLine.text)
          /\ ~HasLine(FoundLine(0).text))
  /\ [](HasLine(FoundLine(0).text) =>
          /\ file.written = "ok"
          /\ HasLine(SuccessLine.text)
          /\ pc = "done")
  /\ <>(pc \in {"done", "fatal"})

\* a write failed after a scan that added a file
C8_Witness ==
  /\ pc = "fatal"
  /\ err = "OSError"
  /\ file.written = "partial"
  /\ added > 0
  /\ stdout = <<StartingLine>>

\* C9: the file the scan adds puts at its (package, version) pair the record
\* built from its own archive and filename, whatever was there; the records
\* of all other pairs stay, no other pair appears, and a step that adds no
\* file leaves the mapping alone
C9_LastSeenWins ==
  /\ [][(pc = "scan_files" /\ scanlog' = "Added") =>
          LET info == extract_package_info(archive')
              p == Get(info, "name")
              v == extract_version_from_filename(filename')
              r == packages'[p].versions[v]
          IN  /\ <<p, v>> \in Pairs(packages')
              /\ r["displayName"] = Get(info, "displayName")
              /\ r["unity"] = Get(info, "unity")
              /\ r["description"] = Get(info, "description")
              /\ r["url"] = PyStr(DOWNLOAD_URL_BASE(Format(Get(info, "displayName")), filename'))
              /\ OptionalAsIn(r, info)
              /\ Pairs(packages') = Pairs(packages) \cup {<<p, v>>}
              /\ \A qw \in Pairs(packages) \ {<<p, v>>} :
                   packages'[qw[1]].versions[qw[2]] = packages[qw[1]].versions[qw[2]]]_vars
  /\ [][~(pc = "scan_files" /\ scanlog' = "Added") => packages' = packages]_vars
  /\ [](\A m \in Mappings : m = packages \/ pc = "main")

\* two files were added and the mapping holds the one record of the second
C9_Witness ==
  /\ scanlog = "Added"
  /\ added = 2
  /\ Pairs(packages) = {<<CurrentName, CurrentVersion>>}
  /\ UrlFilename(packages[CurrentName].versions[CurrentVersion]["url"].v) = filename
  /\ filename = FileB100
  /\ extract_package_info(archive) = MetaFull

\* C10: every package key is a non-empty name, every package has at least
\* one version, and every record's name is the key of its package
C10_PackagesWellFormed ==
  \A m \in Mappings : \A p \in DOMAIN m :
    /\ p.t = "str" /\ p.v # <<>>
    /\ DOMAIN m[p].versions # {}
    /\ \A v \in DOMAIN m[p].versions : m[p].versions[v]["name"] = p

\* two packages are in the index although nameless metadata was met
C10_Witness ==
  /\ pc = "done"
  /\ DOMAIN index[1].packages = {NameP, NameQ}
  /\ Get(extract_package_info(archive), "name") = PyStr(<<>>)

====
